---------------------------- MODULE Spec2Model ----------------------------
(***************************************************************************)
(* The YOLOv8 detection API (src/api/main.py): the process-wide model,     *)
(* the startup hook, the health endpoint and the /detect handler; and what *)
(* the Streamlit page (src/ui/app.py) shows for the API's answers.         *)
(*                                                                         *)
(* Each call of detect_objects is a request r \in Req with its own locals  *)
(* and its own position pc[r] in the handler.  The handler is cut at every *)
(* statement that can raise, so requests interleave at least as freely as  *)
(* the event loop allows (which switches only at `await image.read()`).    *)
(* When the handler returns or raises, its frame is gone: img, results,    *)
(* detections and class_counts go back to their initial values, and what   *)
(* is left of the request is its parameters, its response and its history. *)
(*                                                                         *)
(* Numbers: a confidence threshold is held in hundredths (25 is 0.25), a   *)
(* raw score in thousandths (912 is 0.912), a raw coordinate in tenths of  *)
(* a pixel (1057 is 105.7).                                                *)
(***************************************************************************)
EXTENDS Integers, Sequences, FiniteSets, TLC

\* ---- bounds of the model ----
NumRequests == 2
MaxBoxes == 2

\* ---- program constants ----
CONFIDENCE_THRESHOLD_DEFAULT == 25

Req == 1..NumRequests

\* The form field confidence_threshold as a client may send it: absent (<<>>, which
\* takes the Form default) or one value.
ThresholdInputs == {<<>>, <<-1>>, <<101>>}

\* Kinds of uploaded bytes: an RGB JPEG, a greyscale PNG, bytes that are no image.
Uploads == {"jpeg_rgb", "png_gray", "garbage"}

\* Class ids the detector may put in a box; 2 has no entry in result.names.
ClassIds == {0, 1, 2}

names == (0 :> "person") @@ (1 :> "car")

VARIABLES
    model,                 \* the global `model`: "None" or "YOLO"
    startup,               \* the startup hook: "pending", "done" or "failed"
    files,                 \* OUTPUT_DIR: file name -> content
    health,                \* the last /health exchange
    pc,                    \* pc[r]: position of request r in detect_objects
    confidence_threshold,  \* the handler's parameter
    image,                 \* the upload's unread bytes (their kind), "" once read
    img,                   \* the decoded PIL image (its mode), "None" before
    results,               \* the list returned by model(img, conf=...)
    detections,            \* the local list
    class_counts,          \* the local defaultdict(int)
    response,              \* what the client receives
    steps,                 \* history: the pipeline steps r has executed, in order
    loadedAtArrival,       \* history: was the model loaded when r arrived
    lastWrite              \* history: the request whose save() completed last, 0 if none

vars == <<model, startup, files, health, pc, confidence_threshold, image, img,
          results, detections, class_counts, response, steps, loadedAtArrival,
          lastWrite>>

globals == <<model, startup>>
params == <<confidence_threshold, image>>
locals == <<img, results, detections, class_counts>>

EmptyDict == [x \in {} |-> 0]

NoResponse == [status |-> 0, detail |-> "", detections |-> <<>>, summary |-> EmptyDict]

NoHealth == [status_code |-> 0, status |-> "", loaded |-> FALSE, sidebar |-> ""]

PipelineOrder ==
    <<"model_check", "threshold", "decode", "infer", "aggregate", "write", "respond">>

Terminal(r) == pc[r] \in {"Responded", "Failed"}

Arrived(r) == pc[r] # "idle"

Last(s) == s[Len(s)]

IsPrefix(s, t) == Len(s) <= Len(t) /\ \A i \in 1..Len(s) : s[i] = t[i]

----------------------------------------------------------------------------
\* ---- exceptions and how the handler maps them ----

HTTPException(code, text) == [kind |-> "HTTPException", status_code |-> code, detail |-> text]

OtherException(text) == [kind |-> "Exception", status_code |-> 0, detail |-> text]

\* A handler that lost its `except HTTPException: raise` clause.
CatchAll(exc) == HTTPException(500, "Detection failed")

\* except HTTPException: raise / except Exception: raise HTTPException(500, ...)
OuterHandler(exc) ==
    IF exc.kind = "HTTPException" THEN exc ELSE HTTPException(500, "Detection failed")

\* An inner handler that lets the decoder's exception through.
InvalidImagePassedOn(exc) == exc

\* except Exception as e: raise HTTPException(400, "Invalid image file: ...")
InvalidImage(exc) == HTTPException(400, "Invalid image file")

ErrorResponse(exc) ==
    [status |-> exc.status_code, detail |-> exc.detail,
     detections |-> <<>>, summary |-> EmptyDict]

\* A range check that forgot the lower end.
ThresholdUpperOnly(t) == t <= 100

\* 0.0 <= confidence_threshold <= 1.0
ThresholdInRange(t) == 0 <= t /\ t <= 100

\* A handler that never looks at the global.
ModelNeverMissing == FALSE

\* model is None
ModelIsNone == model = "None"

\* The page's sidebar after its GET of the health URL.
SidebarHealth(status_code) ==
    IF status_code = 200 THEN "API is online" ELSE "API is not responding correctly"

\* The page's message for the status code of a /detect answer.
StatusMessage(status_code) ==
    CASE status_code = 200 -> "Detection complete"
      [] status_code = 400 -> "Bad request"
      [] status_code = 503 -> "Model not loaded"
      [] OTHER -> "Error"

\* Form(CONFIDENCE_THRESHOLD_DEFAULT)
FormValue(t) == IF t = <<>> THEN CONFIDENCE_THRESHOLD_DEFAULT ELSE t[1]

\* Image.open(io.BytesIO(image_bytes)): the mode of the opened image, or "error".
ImageOpen(bytes) ==
    CASE bytes = "jpeg_rgb" -> "RGB"
      [] bytes = "png_gray" -> "L"
      [] OTHER -> "error"

\* if img.mode != "RGB": img = img.convert("RGB")
ToRGB(mode) == IF mode # "RGB" THEN "RGB" ELSE mode

----------------------------------------------------------------------------
\* ---- the detector's output and its processing ----

Conf(c) == CASE c = 0 -> 912 [] c = 1 -> 457 [] OTHER -> 300

Xyxy(c) ==
    CASE c = 0 -> <<1057, 209, 3001, 4009>>
      [] c = 1 -> <<5, 1999, 1234, 2500>>
      [] OTHER -> <<0, 0, 99, 99>>

RawBox(c) == [cls |-> c, conf |-> Conf(c), xyxy |-> Xyxy(c)]

BoxSeqs == UNION {[1..n -> {RawBox(c) : c \in ClassIds}] : n \in 0..MaxBoxes}

\* What model(img, conf=t) may return for one image: a list of one Results object
\* whose boxes all score at least the threshold.
DetectorOutputs(t) ==
    {<<[boxes |-> bs, names |-> names]>> :
        bs \in {b \in BoxSeqs : \A i \in 1..Len(b) : b[i].conf >= t * 10}}

\* int(x) on a float: truncation towards zero, on tenths.
IntOf(x) == IF x >= 0 THEN x \div 10 ELSE -((-x) \div 10)

\* round(score, 2): thousandths to hundredths, ties to even.
Round2(m) ==
    LET q == m \div 10
        rem == m % 10
    IN  IF rem > 5 THEN q + 1
        ELSE IF rem < 5 THEN q
        ELSE IF q % 2 = 0 THEN q ELSE q + 1

\* class_counts[label] += 1 on a defaultdict(int)
Bump(counts, label) ==
    IF label \in DOMAIN counts
    THEN [counts EXCEPT ![label] = @ + 1]
    ELSE counts @@ (label :> 1)

\* The body of `for box in boxes`, from box number i on, with the lists built so far.
RECURSIVE ProcessBoxes(_, _, _, _, _)
ProcessBoxes(boxes, nm, i, dets, counts) ==
    IF i > Len(boxes) THEN [ok |-> TRUE, detections |-> dets, class_counts |-> counts]
    ELSE LET box == boxes[i]
             class_id == box.cls
         IN  IF class_id \notin DOMAIN nm
             THEN [ok |-> FALSE, detections |-> dets, class_counts |-> counts]
             ELSE LET label == nm[class_id]
                      rec == [box |-> <<IntOf(box.xyxy[1]), IntOf(box.xyxy[2]),
                                        IntOf(box.xyxy[3]), IntOf(box.xyxy[4])>>,
                              label |-> label,
                              score |-> Round2(box.conf)]
                  IN  ProcessBoxes(boxes, nm, i + 1, Append(dets, rec), Bump(counts, label))

\* `for result in results`, from result number k on.
RECURSIVE ProcessAll(_, _, _, _)
ProcessAll(res, k, dets, counts) ==
    IF k > Len(res) THEN [ok |-> TRUE, detections |-> dets, class_counts |-> counts]
    ELSE LET one == ProcessBoxes(res[k].boxes, res[k].names, 1, dets, counts)
         IN  IF one.ok THEN ProcessAll(res, k + 1, one.detections, one.class_counts)
             ELSE one

\* Counts that live outside the handler and are carried from request to request.
CarriedCounts(r) ==
    IF \E q \in Req : q # r /\ DOMAIN class_counts[q] # {}
    THEN class_counts[CHOOSE q \in Req : q # r /\ DOMAIN class_counts[q] # {}]
    ELSE EmptyDict

\* class_counts = defaultdict(int)
FreshCounts(r) == EmptyDict

\* A file name of its own for every request.
OutputPathPerRequest(r) == "annotated_" \o ToString(r) \o ".jpg"

\* os.path.join(OUTPUT_DIR, "last_annotated.jpg"), relative to OUTPUT_DIR
OutputPath(r) == "last_annotated.jpg"

\* results[0].plot(), then Image.fromarray: the overlay of r's boxes.
Plot(r) == [by |-> r, boxes |-> results[r][1].boxes]

\* annotated_pil.save(output_path): create or overwrite the file.
SaveFile(fs, path, content) ==
    [p \in DOMAIN fs \cup {path} |-> IF p = path THEN content ELSE fs[p]]

----------------------------------------------------------------------------
Init ==
    /\ model = "None"
    /\ startup = "pending"
    /\ files = [p \in {} |-> 0]
    /\ health = NoHealth
    /\ pc = [r \in Req |-> "idle"]
    /\ confidence_threshold = [r \in Req |-> CONFIDENCE_THRESHOLD_DEFAULT]
    /\ image = [r \in Req |-> ""]
    /\ img = [r \in Req |-> "None"]
    /\ results = [r \in Req |-> <<>>]
    /\ detections = [r \in Req |-> <<>>]
    /\ class_counts = [r \in Req |-> EmptyDict]
    /\ response = [r \in Req |-> NoResponse]
    /\ steps = [r \in Req |-> <<>>]
    /\ loadedAtArrival = [r \in Req |-> FALSE]
    /\ lastWrite = 0

\* The process serves while the startup hook has not raised.  A request may arrive
\* while the hook is still pending: the application answers without it when it is
\* served with lifespan events off, which is the case `if model is None` is there for.
Serving == startup # "failed"

\* The handler's frame is dropped.
Unwind(r) ==
    /\ img' = [img EXCEPT ![r] = "None"]
    /\ results' = [results EXCEPT ![r] = <<>>]
    /\ detections' = [detections EXCEPT ![r] = <<>>]
    /\ class_counts' = [class_counts EXCEPT ![r] = EmptyDict]

\* raise HTTPException(...) at step `step` of request r, as the client sees it.
Fail(r, step, exc) ==
    /\ pc' = [pc EXCEPT ![r] = "Failed"]
    /\ response' = [response EXCEPT ![r] = ErrorResponse(exc)]
    /\ steps' = [steps EXCEPT ![r] = Append(@, step)]
    /\ Unwind(r)

Advance(r, step, next) ==
    /\ pc' = [pc EXCEPT ![r] = next]
    /\ steps' = [steps EXCEPT ![r] = Append(@, step)]
    /\ UNCHANGED response

\* startup_event: model = YOLO(MODEL_PATH); mkdir; any exception is re-raised.
startup_event ==
    /\ startup = "pending"
    /\ \/ /\ model' = "YOLO"
          /\ startup' = "done"
       \/ /\ model' = model             \* YOLO(MODEL_PATH) raised
          /\ startup' = "failed"
       \/ /\ model' = "YOLO"            \* mkdir raised
          /\ startup' = "failed"
    /\ UNCHANGED <<files, health, pc, params, locals, response, steps, loadedAtArrival,
                   lastWrite>>

\* GET /health returns {"status": "ok"}; `loaded` records the global at that moment,
\* `sidebar` what the page makes of the answer.
health_check ==
    /\ Serving
    /\ health' = [status_code |-> 200, status |-> "ok", loaded |-> model # "None",
                  sidebar |-> SidebarHealth(200)]
    /\ UNCHANGED <<model, startup, files, pc, params, locals, response, steps,
                   loadedAtArrival, lastWrite>>

\* POST /detect arrives: the parameters are bound and `if model is None` runs.
detect_objects(r, t, bytes) ==
    /\ Serving
    /\ pc[r] = "idle"
    /\ confidence_threshold' = [confidence_threshold EXCEPT ![r] = FormValue(t)]
    /\ image' = [image EXCEPT ![r] = bytes]
    /\ loadedAtArrival' = [loadedAtArrival EXCEPT ![r] = model # "None"]
    /\ IF ModelIsNone
       THEN Fail(r, "model_check", HTTPException(503, "Model not loaded"))
       ELSE Advance(r, "model_check", "validate") /\ UNCHANGED locals
    /\ UNCHANGED <<globals, files, health, lastWrite>>

\* if not 0.0 <= confidence_threshold <= 1.0: raise HTTPException(400, ...)
ValidateThreshold(r) ==
    /\ Serving
    /\ pc[r] = "validate"
    /\ IF ~ThresholdInRange(confidence_threshold[r])
       THEN Fail(r, "threshold",
                 OuterHandler(HTTPException(400,
                     "confidence_threshold must be between 0.0 and 1.0")))
       ELSE Advance(r, "threshold", "read") /\ UNCHANGED locals
    /\ UNCHANGED <<globals, files, health, params, loadedAtArrival, lastWrite>>

\* image.read(), Image.open, convert("RGB"), inside the inner try.
ReadImage(r) ==
    /\ Serving
    /\ pc[r] = "read"
    /\ image' = [image EXCEPT ![r] = ""]
    /\ LET mode == ImageOpen(image[r])
       IN  IF mode = "error"
           THEN Fail(r, "decode",
                     OuterHandler(InvalidImage(OtherException("cannot identify image file"))))
           ELSE /\ img' = [img EXCEPT ![r] = ToRGB(mode)]
                /\ Advance(r, "decode", "infer")
                /\ UNCHANGED <<results, detections, class_counts>>
    /\ UNCHANGED <<globals, files, health, confidence_threshold, loadedAtArrival, lastWrite>>

\* An inference call that is attempted again after it raised.
RunInferenceRetried(r) ==
    /\ Serving
    /\ pc[r] = "infer"
    /\ \/ /\ \E out \in DetectorOutputs(confidence_threshold[r]) :
                results' = [results EXCEPT ![r] = out]
          /\ Advance(r, "infer", "aggregate")
          /\ UNCHANGED <<img, detections, class_counts>>
       \/ /\ Len(steps[r]) < Len(PipelineOrder)
          /\ Advance(r, "infer", "infer")
          /\ UNCHANGED locals
    /\ UNCHANGED <<globals, files, health, params, loadedAtArrival, lastWrite>>

\* results = model(img, conf=confidence_threshold)
RunInference(r) ==
    /\ Serving
    /\ pc[r] = "infer"
    /\ \/ /\ \E out \in DetectorOutputs(confidence_threshold[r]) :
                results' = [results EXCEPT ![r] = out]
          /\ Advance(r, "infer", "aggregate")
          /\ UNCHANGED <<img, detections, class_counts>>
       \/ Fail(r, "infer", OuterHandler(OtherException("inference failed")))
    /\ UNCHANGED <<globals, files, health, params, loadedAtArrival, lastWrite>>

\* detections = []; class_counts = defaultdict(int); the two nested loops.
ProcessResults(r) ==
    /\ Serving
    /\ pc[r] = "aggregate"
    /\ LET out == ProcessAll(results[r], 1, <<>>, FreshCounts(r))
       IN  IF out.ok
           THEN /\ detections' = [detections EXCEPT ![r] = out.detections]
                /\ class_counts' = [class_counts EXCEPT ![r] = out.class_counts]
                /\ Advance(r, "aggregate", "save")
                /\ UNCHANGED <<img, results>>
           ELSE Fail(r, "aggregate", OuterHandler(OtherException("KeyError")))
    /\ UNCHANGED <<globals, files, health, params, loadedAtArrival, lastWrite>>

\* results[0].plot(); Image.fromarray(...).save(output_path)
SaveAnnotated(r) ==
    /\ Serving
    /\ pc[r] = "save"
    /\ \/ /\ files' = SaveFile(files, OutputPath(r), Plot(r))
          /\ lastWrite' = r
          /\ Advance(r, "write", "respond")
          /\ UNCHANGED locals
       \/ /\ Fail(r, "write", OuterHandler(OtherException("OSError")))
          /\ UNCHANGED <<files, lastWrite>>
    /\ UNCHANGED <<globals, health, params, loadedAtArrival>>

\* return JSONResponse({"detections": detections, "summary": dict(class_counts)})
Respond(r) ==
    /\ Serving
    /\ pc[r] = "respond"
    /\ pc' = [pc EXCEPT ![r] = "Responded"]
    /\ steps' = [steps EXCEPT ![r] = Append(@, "respond")]
    /\ response' = [response EXCEPT ![r] =
                       [status |-> 200, detail |-> "",
                        detections |-> detections[r], summary |-> class_counts[r]]]
    /\ Unwind(r)
    /\ UNCHANGED <<globals, files, health, params, loadedAtArrival, lastWrite>>

\* The detection pipeline: the startup hook and the /detect handler.
NextDetect ==
    \/ startup_event
    \/ \E r \in Req, t \in ThresholdInputs, bytes \in Uploads : detect_objects(r, t, bytes)
    \/ \E r \in Req : ValidateThreshold(r)
    \/ \E r \in Req : ReadImage(r)
    \/ \E r \in Req : RunInference(r)
    \/ \E r \in Req : ProcessResults(r)
    \/ \E r \in Req : SaveAnnotated(r)
    \/ \E r \in Req : Respond(r)

Next ==
    \/ NextDetect
    \/ health_check

\* The whole service.
Spec == Init /\ [][Next]_vars

\* The service while nobody polls /health (health_check changes only `health`).
SpecDetect == Init /\ [][NextDetect]_vars

TypeOK ==
    /\ model \in {"None", "YOLO"}
    /\ startup \in {"pending", "done", "failed"}
    /\ \A r \in Req :
          pc[r] \in {"idle", "validate", "read", "infer", "aggregate", "save", "respond",
                     "Responded", "Failed"}

----------------------------------------------------------------------------
\* ---- properties ----

\* Request r has executed pipeline step s.
Has(r, s) == \E i \in 1..Len(steps[r]) : steps[r][i] = s

\* A threshold outside the closed interval [0.0, 1.0], in hundredths.
OutsideUnit(t) == t < 0 \/ t > 100

ArtifactName == "last_annotated.jpg"

\* How many records of the list d carry the label l.
CountLabel(d, l) == Cardinality({i \in 1..Len(d) : d[i].label = l})

\* C1 as stated: a request whose confidence_threshold lies outside [0.0, 1.0] ends as
\* BadRequest in every system state, model loaded or not, and neither the image decode
\* nor the Detector runs for it.
C1_OutOfRangeAlwaysBadRequest ==
    \A r \in Req :
        (Arrived(r) /\ OutsideUnit(confidence_threshold[r]))
            => /\ ~Has(r, "decode")
               /\ ~Has(r, "infer")
               /\ Terminal(r) => response[r].status = 400

\* C1 amended: a request whose confidence_threshold lies outside [0.0, 1.0] never gets
\* its image decoded nor the Detector invoked; it ends as BadRequest (400) when the
\* model was loaded at its arrival and as ServiceUnavailable (503) when it was not.
C1_OutOfRangeRejected ==
    \A r \in Req :
        (Arrived(r) /\ OutsideUnit(confidence_threshold[r]))
            => /\ ~Has(r, "decode")
               /\ ~Has(r, "infer")
               /\ pc[r] \in {"validate", "Failed"}
               /\ Terminal(r) =>
                     response[r].status = (IF loadedAtArrival[r] THEN 400 ELSE 503)

C1_Witness ==
    \E r \in Req :
        /\ pc[r] = "Failed"
        /\ confidence_threshold[r] = 101
        /\ loadedAtArrival[r]
        /\ response[r].status = 400
        /\ steps[r] = <<"model_check", "threshold">>

\* C2: a request that arrives while the model is not loaded ends as ServiceUnavailable
\* (503) whatever its bytes and threshold: the upload is left unread, nothing is
\* decoded, the Detector is not invoked and the artifact is not written for it.
C2_UnavailableFailsFast ==
    \A r \in Req :
        (Arrived(r) /\ ~loadedAtArrival[r])
            => /\ pc[r] = "Failed"
               /\ response[r].status = 503
               /\ StatusMessage(response[r].status) = "Model not loaded"
               /\ steps[r] = <<"model_check">>
               /\ image[r] \in Uploads
               /\ img[r] = "None"
               /\ lastWrite # r

C2_Witness ==
    \E r \in Req :
        /\ Arrived(r)
        /\ ~loadedAtArrival[r]
        /\ ~OutsideUnit(confidence_threshold[r])
        /\ image[r] = "jpeg_rgb"
        /\ response[r].status = 503

\* C3 as stated: the health check reports ok exactly when the model is loaded; while
\* the model is unavailable it does not report ok.
C3_HealthReportsModel ==
    health.status_code # 0 =>
        /\ health.status = "ok" <=> health.loaded
        /\ health.sidebar = "API is online" => health.loaded

\* C4 as stated: a failure of the artifact write never makes the request Failed: no
\* request fails at its write step.
C4_WriteFailureNotFatal ==
    \A r \in Req : pc[r] = "Failed" => Last(steps[r]) # "write"

\* C5: in every success response the keys of summary are exactly the labels that occur
\* in that response's detections, and summary[label] is the number of those detections
\* carrying the label, however the requests interleave.
C5_SummaryCountsOwnDetections ==
    \A r \in Req :
        pc[r] = "Responded" =>
            LET d == response[r].detections
                s == response[r].summary
            IN  /\ DOMAIN s = {d[i].label : i \in 1..Len(d)}
                /\ \A l \in DOMAIN s : s[l] = CountLabel(d, l)

C5_Witness ==
    \E r, q \in Req :
        /\ r # q
        /\ pc[r] = "Responded" /\ pc[q] = "Responded"
        /\ Len(response[r].detections) = 2
        /\ response[r].summary = ("person" :> 2)
        /\ response[q].summary = ("car" :> 1)

\* C6: a request that passed the model check and the threshold check and whose bytes do
\* not decode ends as BadRequest (400); the step that reads them leaves the stored
\* artifact alone, and a request that failed at decode has neither invoked the Detector
\* nor written the artifact.
C6_UndecodableIsBadRequest ==
    /\ [](\A r \in Req :
            (pc[r] = "Failed" /\ Last(steps[r]) = "decode")
                => /\ response[r].status = 400
                   /\ ~Has(r, "infer")
                   /\ ~Has(r, "write")
                   /\ lastWrite # r)
    /\ [][\A r \in Req :
            (pc[r] = "read" /\ image[r] = "garbage" /\ pc'[r] # "read")
                => /\ pc'[r] = "Failed"
                   /\ response'[r].status = 400
                   /\ Last(steps'[r]) = "decode"
                   /\ files' = files]_vars

C6_Witness ==
    \E r \in Req :
        /\ pc[r] = "Failed"
        /\ Last(steps[r]) = "decode"
        /\ loadedAtArrival[r]
        /\ ~OutsideUnit(confidence_threshold[r])
        /\ response[r].status = 400

\* C7 as stated: once the Detector has returned zero detections for a request, the
\* request does not fail: its artifact write is performed and it ends Responded with
\* detections = [] and summary = {}.
C7_ZeroDetectionsResponded ==
    [][\A r \in Req :
         (/\ pc[r] \in {"aggregate", "save", "respond"}
          /\ results[r][1].boxes = <<>>
          /\ pc'[r] # pc[r])
            => /\ pc'[r] # "Failed"
               /\ pc'[r] = "Responded" =>
                     /\ response'[r].detections = <<>>
                     /\ response'[r].summary = EmptyDict
                     /\ \E i \in 1..Len(steps'[r]) : steps'[r][i] = "write"]_vars

\* C8: the output directory never holds a file other than last_annotated.jpg; it is
\* empty until a write completes and from then on holds the overlay of the request
\* whose write completed last, with that request's boxes; a step in which a request
\* fails leaves the stored artifact unchanged.
C8_LastWriterWins ==
    /\ [](/\ DOMAIN files \subseteq {ArtifactName}
          /\ lastWrite = 0 <=> DOMAIN files = {}
          /\ lastWrite # 0 =>
                /\ files[ArtifactName].by = lastWrite
                /\ LET b == files[ArtifactName].boxes
                       w == lastWrite
                   IN  /\ pc[w] \in {"respond", "Responded"}
                       /\ pc[w] = "respond" => b = results[w][1].boxes
                       /\ pc[w] = "Responded" =>
                             /\ Len(b) = Len(response[w].detections)
                             /\ \A i \in 1..Len(b) :
                                   names[b[i].cls] = response[w].detections[i].label)
    /\ [][\A r \in Req :
            (pc[r] # "Failed" /\ pc'[r] = "Failed") => files' = files]_vars

C8_Witness ==
    \E r, q \in Req :
        /\ r # q
        /\ Has(r, "write") /\ Has(q, "write")
        /\ pc[r] = "Responded"
        /\ lastWrite = q
        /\ DOMAIN files = {ArtifactName}
        /\ files[ArtifactName].by = q
        /\ Len(files[ArtifactName].boxes) # Len(response[r].detections)

\* C9: the steps a request has executed are always an initial part of the fixed order
\* model check, threshold check, decode, inference, aggregation, write, respond (so no
\* step runs twice and none runs out of order), and a request that has failed or
\* responded executes nothing further.
C9_EachStepOnceInOrder ==
    /\ [](\A r \in Req : IsPrefix(steps[r], PipelineOrder))
    /\ [][\A r \in Req :
            Terminal(r) => (pc'[r] = pc[r] /\ steps'[r] = steps[r])]_vars

C9_Witness ==
    \E r, q \in Req :
        /\ pc[r] = "Responded"
        /\ steps[r] = PipelineOrder
        /\ pc[q] = "Failed"
        /\ steps[q] = <<"model_check", "threshold", "decode", "infer">>

\* C10: a request has a response exactly when it is terminal, a response of exactly one
\* kind; a request that failed at inference or at aggregation got 500; one that failed
\* at the threshold check or at decode got 400 and one that failed at the model check
\* got 503, not 500; a request that responded got 200.
C10_OutcomeByFirstFailure ==
    \A r \in Req :
        /\ Terminal(r) <=> response[r] # NoResponse
        /\ Terminal(r) => response[r].status \in {200, 400, 500, 503}
        /\ pc[r] = "Responded" <=> response[r].status = 200
        /\ pc[r] = "Failed" =>
              /\ Last(steps[r]) \in {"infer", "aggregate"} => response[r].status = 500
              /\ Last(steps[r]) \in {"threshold", "decode"} => response[r].status = 400
              /\ Last(steps[r]) = "model_check" => response[r].status = 503

C10_Witness ==
    \E r, q \in Req :
        /\ pc[r] = "Failed"
        /\ Last(steps[r]) = "aggregate"
        /\ response[r].status = 500
        /\ pc[q] = "Failed"
        /\ Last(steps[q]) = "threshold"
        /\ response[q].status = 400
=============================================================================
